---------------------------- MODULE Spec2Model ----------------------------
(***************************************************************************)
(* A model of the CHIP-8 virtual machine of src/src/chip8/mod.rs and of    *)
(* the host loop of src/src/main.rs.                                       *)
(*                                                                         *)
(* The machine is the struct Chip8; every field is a variable of the same  *)
(* name.  The instruction helpers are operators over a record `m` holding  *)
(* the fields, written in the order the Rust code performs its reads and   *)
(* writes, so that a panic leaves the writes made before it in place.      *)
(*                                                                         *)
(* Two arrays are held in a compact form that loses nothing:               *)
(*   memory ([u8; 4096]) is a function from the addresses that hold a      *)
(*     non-zero byte to that byte; every other address holds 0.  MemRead   *)
(*     and MemWrite are memory[a] and memory[a] = v.                       *)
(*   gfx ([u8; 2048], whose cells only ever hold 0 or 1) is the set of     *)
(*     the cells that hold 1.  The host's pixel buffer, whose cells hold   *)
(*     0 or 0x0FFF, is the set of the cells that hold 0x0FFF.              *)
(***************************************************************************)
EXTENDS Integers, Sequences, FiniteSets, TLC

(***************************************************************************)
(* Sizes fixed by the struct and by the integer types of the source.       *)
(***************************************************************************)
MEMORY_SIZE == 4096
GFX_SIZE == 2048
NUM_REGISTERS == 16
STACK_SIZE == 16
NUM_KEYS == 16
PROGRAM_START == 512
U8 == 256
U16 == 65536

Byte == 0 .. (U8 - 1)

(***************************************************************************)
(* Bit operations on unsigned integers, bit by bit.                        *)
(***************************************************************************)
RECURSIVE BitAnd(_, _)
BitAnd(a, b) ==
    IF a = 0 \/ b = 0 THEN 0
    ELSE (a % 2) * (b % 2) + 2 * BitAnd(a \div 2, b \div 2)

RECURSIVE BitOr(_, _)
BitOr(a, b) ==
    IF a = 0 THEN b
    ELSE IF b = 0 THEN a
    ELSE (IF a % 2 = 1 \/ b % 2 = 1 THEN 1 ELSE 0) + 2 * BitOr(a \div 2, b \div 2)

RECURSIVE BitXor(_, _)
BitXor(a, b) ==
    IF a = 0 THEN b
    ELSE IF b = 0 THEN a
    ELSE ((a + b) % 2) + 2 * BitXor(a \div 2, b \div 2)

\* x >> k on an unsigned integer
Shr(x, k) == x \div (2 ^ k)

(***************************************************************************)
(* The built-in glyph set, 16 glyphs of 5 bytes.                           *)
(***************************************************************************)
CHIP8_FONTSET ==
    << 240, 144, 144, 144, 240,
        32,  96,  32,  32, 112,
       240,  16, 240, 128, 240,
       240,  16, 240,  16, 240,
       144, 144, 240,  16,  16,
       240, 128, 240,  16, 240,
       240, 128, 240, 144, 240,
       240,  16,  32,  64,  64,
       240, 144, 240, 144, 240,
       240, 144, 240,  16, 240,
       240, 144, 240, 144, 144,
       224, 144, 224, 144, 224,
       240, 128, 128, 128, 240,
       224, 144, 144, 144, 224,
       240, 128, 240, 128, 240,
       240, 128, 240, 128, 128 >>

(***************************************************************************)
(* Panics.  A Rust panic ends emulate_cycle at once; the record keeps the  *)
(* fields as they are at that moment.  `panic` is "" while the machine     *)
(* runs; `panic_value` is the number the message of panic!("Unknown        *)
(* opcode: {:#X}", ..) prints, and 0 for the other panics.                 *)
(***************************************************************************)
UNKNOWN_OPCODE == "Unknown opcode"
INDEX_OUT_OF_BOUNDS == "index out of bounds"
ADD_OVERFLOW == "attempt to add with overflow"
SUB_OVERFLOW == "attempt to subtract with overflow"

\* memory[a], for a < MEMORY_SIZE
MemRead(mem, a) == IF a \in DOMAIN mem THEN mem[a] ELSE 0

\* memory[a] = v, for a < MEMORY_SIZE
MemWrite(mem, a, v) ==
    IF v = 0 THEN [b \in (DOMAIN mem) \ {a} |-> mem[b]]
    ELSE [b \in (DOMAIN mem) \cup {a} |-> IF b = a THEN v ELSE mem[b]]

Panic(m, what, value) == [m EXCEPT !.panic = what, !.panic_value = value]

(***************************************************************************)
(* Chip8::new: memory zeroed, the glyph set installed, PC = 0x200.         *)
(***************************************************************************)
\* Mutant: the glyph set is not installed
new_without_glyphs ==
    [ memory |-> << >>,
      cpu_registers |-> [r \in 0 .. (NUM_REGISTERS - 1) |-> 0],
      index_register |-> 0,
      program_counter |-> PROGRAM_START,
      gfx |-> {},
      delay_timer |-> 0,
      sound_timer |-> 0,
      stack |-> [s \in 0 .. (STACK_SIZE - 1) |-> 0],
      stack_pointer |-> 0,
      keys |-> [k \in 0 .. (NUM_KEYS - 1) |-> 0],
      draw_flag |-> FALSE,
      panic |-> "",
      panic_value |-> 0,
      beep |-> FALSE ]

new ==
    [ memory |-> [a \in {i \in 0 .. (Len(CHIP8_FONTSET) - 1) : CHIP8_FONTSET[i + 1] # 0}
                     |-> CHIP8_FONTSET[a + 1]],
      cpu_registers |-> [r \in 0 .. (NUM_REGISTERS - 1) |-> 0],
      index_register |-> 0,
      program_counter |-> PROGRAM_START,
      gfx |-> {},
      delay_timer |-> 0,
      sound_timer |-> 0,
      stack |-> [s \in 0 .. (STACK_SIZE - 1) |-> 0],
      stack_pointer |-> 0,
      keys |-> [k \in 0 .. (NUM_KEYS - 1) |-> 0],
      draw_flag |-> FALSE,
      panic |-> "",
      panic_value |-> 0,
      beep |-> FALSE ]

\* program_counter += k
Advance(m, k) == [m EXCEPT !.program_counter = @ + k]

\* 0x00E0
clear_screen(m) ==
    Advance([m EXCEPT !.gfx = {}, !.draw_flag = TRUE], 2)


(***************************************************************************)
(* 0x00EE.  The program counter is assigned before the stack pointer is    *)
(* decremented; the decrement of a u16 that is 0 panics in a build with    *)
(* overflow checks (oc) and wraps to 65535 in one without.                 *)
(***************************************************************************)
\* Mutant: the return address is not stepped past the call
return_from_subroutine_no_skip(m, oc) ==
    IF m.stack_pointer >= STACK_SIZE THEN Panic(m, INDEX_OUT_OF_BOUNDS, 0)
    ELSE LET m1 == [m EXCEPT !.program_counter = m.stack[m.stack_pointer]]
         IN  IF m1.stack_pointer = 0
             THEN IF oc THEN Panic(m1, SUB_OVERFLOW, 0)
                  ELSE [m1 EXCEPT !.stack_pointer = U16 - 1]
             ELSE [m1 EXCEPT !.stack_pointer = @ - 1]

return_from_subroutine(m, oc) ==
    IF m.stack_pointer >= STACK_SIZE THEN Panic(m, INDEX_OUT_OF_BOUNDS, 0)
    ELSE LET m1 == [m EXCEPT !.program_counter = m.stack[m.stack_pointer] + 2]
         IN  IF m1.stack_pointer = 0
             THEN IF oc THEN Panic(m1, SUB_OVERFLOW, 0)
                  ELSE [m1 EXCEPT !.stack_pointer = U16 - 1]
             ELSE [m1 EXCEPT !.stack_pointer = @ - 1]

\* 0x1NNN
process_1_command(m, nnn) == [m EXCEPT !.program_counter = nnn]

(***************************************************************************)
(* 0x2NNN.  The stack pointer is incremented first, then used as index.    *)
(***************************************************************************)
process_2_command(m, nnn, oc) ==
    IF m.stack_pointer = U16 - 1 /\ oc THEN Panic(m, ADD_OVERFLOW, 0)
    ELSE LET m1 == [m EXCEPT !.stack_pointer = (@ + 1) % U16]
         IN  IF m1.stack_pointer >= STACK_SIZE
             THEN Panic(m1, INDEX_OUT_OF_BOUNDS, 0)
             ELSE [m1 EXCEPT !.stack[m1.stack_pointer] = m.program_counter,
                             !.program_counter = nnn]

\* 0x3XNN
process_3_command(m, v_x, nn) ==
    Advance(m, IF m.cpu_registers[v_x] = nn THEN 4 ELSE 2)

\* Mutant: 4XNN skips when VX equals nn
process_4_command_if_equal(m, v_x, nn) ==
    Advance(m, IF m.cpu_registers[v_x] = nn THEN 4 ELSE 2)

\* 0x4XNN
process_4_command(m, v_x, nn) ==
    Advance(m, IF m.cpu_registers[v_x] # nn THEN 4 ELSE 2)

\* 0x5XY0
process_5_command(m, v_x, v_y) ==
    Advance(m, IF m.cpu_registers[v_x] = m.cpu_registers[v_y] THEN 4 ELSE 2)

\* 0x6XNN
process_6_command(m, v_x, nn) ==
    Advance([m EXCEPT !.cpu_registers[v_x] = nn], 2)

\* Mutant: the sum saturates at 255 instead of wrapping
process_7_command_saturating(m, v_x, nn) ==
    Advance([m EXCEPT !.cpu_registers[v_x] = IF @ + nn > 255 THEN 255 ELSE @ + nn], 2)

\* 0x7XNN
process_7_command(m, v_x, nn) ==
    Advance([m EXCEPT !.cpu_registers[v_x] = (@ + nn) % U8], 2)

(***************************************************************************)
(* 0x8XYN.  In the arms 4, 5, 6, 7 and E the flag register VF is written   *)
(* first; VX is then computed from the registers as they are after that    *)
(* write.                                                                  *)
(***************************************************************************)
\* 0x8XY4: VF = carry, then VX += VY
process_8xy4(m, v_x, v_y) ==
    LET V == m.cpu_registers
        V1 == [V EXCEPT ![15] = IF V[v_x] > (255 - V[v_y]) THEN 1 ELSE 0]
        V2 == [V1 EXCEPT ![v_x] = (V1[v_x] + V1[v_y]) % U8]
    IN  Advance([m EXCEPT !.cpu_registers = V2], 2)

\* 0x8XY5: VF = 0 when VY > VX, else 1, then VX -= VY
process_8xy5(m, v_x, v_y) ==
    LET V == m.cpu_registers
        V1 == [V EXCEPT ![15] = IF V[v_y] > V[v_x] THEN 0 ELSE 1]
        V2 == [V1 EXCEPT ![v_x] = (V1[v_x] - V1[v_y]) % U8]
    IN  Advance([m EXCEPT !.cpu_registers = V2], 2)

\* Mutant: the shift takes its operand from VY
process_8xy6_from_vy(m, v_x, v_y) ==
    LET V == m.cpu_registers
        V1 == [V EXCEPT ![15] = BitAnd(V[v_y], 1)]
        V2 == [V1 EXCEPT ![v_x] = Shr(V1[v_y], 1)]
    IN  Advance([m EXCEPT !.cpu_registers = V2], 2)

\* 0x8XY6: VF = VX & 1, then VX >>= 1
process_8xy6(m, v_x, v_y) ==
    LET V == m.cpu_registers
        V1 == [V EXCEPT ![15] = BitAnd(V[v_x], 1)]
        V2 == [V1 EXCEPT ![v_x] = Shr(V1[v_x], 1)]
    IN  Advance([m EXCEPT !.cpu_registers = V2], 2)

\* 0x8XY7: VF = 0 when VX > VY, else 1, then VX = VY - VX
process_8xy7(m, v_x, v_y) ==
    LET V == m.cpu_registers
        V1 == [V EXCEPT ![15] = IF V[v_x] > V[v_y] THEN 0 ELSE 1]
        V2 == [V1 EXCEPT ![v_x] = (V1[v_y] - V1[v_x]) % U8]
    IN  Advance([m EXCEPT !.cpu_registers = V2], 2)

\* 0x8XYE: VF = (VX & 0b10000000) >> 7, then VX <<= 1
process_8xye(m, v_x, v_y) ==
    LET V == m.cpu_registers
        V1 == [V EXCEPT ![15] = Shr(BitAnd(V[v_x], 128), 7)]
        V2 == [V1 EXCEPT ![v_x] = (V1[v_x] * 2) % U8]
    IN  Advance([m EXCEPT !.cpu_registers = V2], 2)

process_8_command(m, operator, v_x, v_y) ==
    LET V == m.cpu_registers IN
    CASE operator = 0 ->
           Advance([m EXCEPT !.cpu_registers[v_x] = V[v_y]], 2)
      [] operator = 1 ->
           Advance([m EXCEPT !.cpu_registers[v_x] = BitOr(V[v_x], V[v_y])], 2)
      [] operator = 2 ->
           Advance([m EXCEPT !.cpu_registers[v_x] = BitAnd(V[v_x], V[v_y])], 2)
      [] operator = 3 ->
           Advance([m EXCEPT !.cpu_registers[v_x] = BitXor(V[v_x], V[v_y])], 2)
      [] operator = 4 -> process_8xy4(m, v_x, v_y)
      [] operator = 5 -> process_8xy5(m, v_x, v_y)
      [] operator = 6 -> process_8xy6(m, v_x, v_y)
      [] operator = 7 -> process_8xy7(m, v_x, v_y)
      [] operator = 14 -> process_8xye(m, v_x, v_y)
      [] OTHER -> Panic(m, UNKNOWN_OPCODE, operator)

\* 0x9XY0
process_9_command(m, v_x, v_y) ==
    Advance(m, IF m.cpu_registers[v_x] # m.cpu_registers[v_y] THEN 4 ELSE 2)

\* 0xANNN
process_a_command(m, nnn) == Advance([m EXCEPT !.index_register = nnn], 2)

\* 0xBNNN
process_b_command(m, nnn) ==
    [m EXCEPT !.program_counter = nnn + m.cpu_registers[0]]

\* 0xCXNN: rnd is the byte the random number generator returns
process_c_command(m, v_x, nn, rnd) ==
    Advance([m EXCEPT !.cpu_registers[v_x] = BitAnd(rnd, nn)], 2)

\* 0xEX9E
process_ex9e_command(m, v_x) ==
    LET key_idx == m.cpu_registers[v_x] IN
    IF key_idx >= NUM_KEYS THEN Panic(m, INDEX_OUT_OF_BOUNDS, 0)
    ELSE Advance(m, IF m.keys[key_idx] = 1 THEN 4 ELSE 2)

\* 0xEXA1
process_exa1_command(m, v_x) ==
    LET key_idx == m.cpu_registers[v_x] IN
    IF key_idx >= NUM_KEYS THEN Panic(m, INDEX_OUT_OF_BOUNDS, 0)
    ELSE Advance(m, IF m.keys[key_idx] # 1 THEN 4 ELSE 2)

(***************************************************************************)
(* 0xDXYN.  x and y are the values of VX and VY read before VF is reset.   *)
(* draw_row is the inner loop over the 8 bits of one sprite byte, from     *)
(* x_line on; draw_rows is the outer loop over the sprite's rows, from     *)
(* y_line on.  The address I + y_line is a u16 sum.                        *)
(***************************************************************************)
gfx_index(x, y, x_line, y_line) == (x + x_line + ((y + y_line) * 64)) % GFX_SIZE

\* Mutant: the pixel is set instead of toggled
set_pixel(g, gfx_idx) == g \cup {gfx_idx}

\* gfx[gfx_idx] ^= 1
xor_pixel(g, gfx_idx) == IF gfx_idx \in g THEN g \ {gfx_idx} ELSE g \cup {gfx_idx}

RECURSIVE draw_row(_, _, _, _, _, _)
draw_row(m, x, y, y_line, pixel, x_line) ==
    IF x_line >= 8 THEN m
    ELSE IF BitAnd(pixel, Shr(128, x_line)) # 0
         THEN LET gfx_idx == gfx_index(x, y, x_line, y_line)
                  m1 == IF gfx_idx \in m.gfx
                        THEN [m EXCEPT !.cpu_registers[15] = 1]
                        ELSE m
                  m2 == [m1 EXCEPT !.gfx = xor_pixel(@, gfx_idx)]
              IN  draw_row(m2, x, y, y_line, pixel, x_line + 1)
         ELSE draw_row(m, x, y, y_line, pixel, x_line + 1)

RECURSIVE draw_rows(_, _, _, _, _, _)
draw_rows(m, x, y, height, y_line, oc) ==
    IF y_line >= height THEN m
    ELSE IF m.index_register + y_line >= U16 /\ oc
         THEN Panic(m, ADD_OVERFLOW, 0)
         ELSE LET addr == (m.index_register + y_line) % U16 IN
              IF addr >= MEMORY_SIZE THEN Panic(m, INDEX_OUT_OF_BOUNDS, 0)
              ELSE draw_rows(draw_row(m, x, y, y_line, MemRead(m.memory, addr), 0),
                             x, y, height, y_line + 1, oc)

\* Mutant: VF is not reset before the loop
draw_sprite_keeps_vf(m, v_x, v_y, height, oc) ==
    LET x == m.cpu_registers[v_x]
        y == m.cpu_registers[v_y]
        m1 == draw_rows(m, x, y, height, 0, oc)
    IN  IF m1.panic # "" THEN m1
        ELSE Advance([m1 EXCEPT !.draw_flag = TRUE], 2)

draw_sprite(m, v_x, v_y, height, oc) ==
    LET x == m.cpu_registers[v_x]
        y == m.cpu_registers[v_y]
        m1 == draw_rows([m EXCEPT !.cpu_registers[15] = 0], x, y, height, 0, oc)
    IN  IF m1.panic # "" THEN m1
        ELSE Advance([m1 EXCEPT !.draw_flag = TRUE], 2)

(***************************************************************************)
(* The loops of 0xFX55 and 0xFX65 over i in 0 ..= v_x, from i on.          *)
(***************************************************************************)
\* Mutant: the loop stops before VX (0 .. v_x instead of 0 ..= v_x)
RECURSIVE store_registers_exclusive(_, _, _)
store_registers_exclusive(m, v_x, i) ==
    IF i >= v_x THEN m
    ELSE IF m.index_register + i >= MEMORY_SIZE
         THEN Panic(m, INDEX_OUT_OF_BOUNDS, 0)
         ELSE store_registers_exclusive(
                  [m EXCEPT !.memory = MemWrite(@, m.index_register + i, m.cpu_registers[i])],
                  v_x, i + 1)

RECURSIVE store_registers(_, _, _)
store_registers(m, v_x, i) ==
    IF i > v_x THEN m
    ELSE IF m.index_register + i >= MEMORY_SIZE
         THEN Panic(m, INDEX_OUT_OF_BOUNDS, 0)
         ELSE store_registers(
                  [m EXCEPT !.memory = MemWrite(@, m.index_register + i, m.cpu_registers[i])],
                  v_x, i + 1)

\* Mutant: FX65 stores the registers instead of loading them
load_registers_as_store(m, v_x, i) == store_registers(m, v_x, i)

RECURSIVE load_registers(_, _, _)
load_registers(m, v_x, i) ==
    IF i > v_x THEN m
    ELSE IF m.index_register + i >= MEMORY_SIZE
         THEN Panic(m, INDEX_OUT_OF_BOUNDS, 0)
         ELSE load_registers(
                  [m EXCEPT !.cpu_registers[i] = MemRead(m.memory, m.index_register + i)],
                  v_x, i + 1)

\* Mutant: the tens digit is not reduced modulo 10
store_bcd_tens_unreduced(m, v_x) ==
    LET I == m.index_register
        v == m.cpu_registers[v_x]
    IN  IF I + 2 >= MEMORY_SIZE THEN Panic(m, INDEX_OUT_OF_BOUNDS, 0)
        ELSE Advance([m EXCEPT !.memory =
                 MemWrite(MemWrite(MemWrite(@, I, v \div 100), I + 1, v \div 10),
                          I + 2, v % 10)], 2)

\* 0xFX33: the three digits are written one after the other
store_bcd(m, v_x) ==
    LET I == m.index_register
        v == m.cpu_registers[v_x]
    IN  IF I >= MEMORY_SIZE THEN Panic(m, INDEX_OUT_OF_BOUNDS, 0)
        ELSE LET m1 == [m EXCEPT !.memory = MemWrite(@, I, v \div 100)] IN
             IF I + 1 >= MEMORY_SIZE THEN Panic(m1, INDEX_OUT_OF_BOUNDS, 0)
             ELSE LET m2 == [m1 EXCEPT !.memory = MemWrite(@, I + 1, (v \div 10) % 10)] IN
                  IF I + 2 >= MEMORY_SIZE THEN Panic(m2, INDEX_OUT_OF_BOUNDS, 0)
                  ELSE Advance([m2 EXCEPT !.memory = MemWrite(@, I + 2, (v % 100) % 10)], 2)

\* 0xFXNN, matched on opcode & 0xF0FF
process_f_command(m, opcode, v_x) ==
    LET low == opcode % 256
        V == m.cpu_registers
    IN  CASE low = 7   -> Advance([m EXCEPT !.cpu_registers[v_x] = m.delay_timer], 2)
          [] low = 21  -> Advance([m EXCEPT !.delay_timer = V[v_x]], 2)
          [] low = 24  -> Advance([m EXCEPT !.sound_timer = V[v_x]], 2)
          [] low = 30  -> Advance([m EXCEPT !.index_register = (@ + V[v_x]) % U16], 2)
          [] low = 41  -> Advance([m EXCEPT !.index_register = V[v_x] * 5], 2)
          [] low = 51  -> store_bcd(m, v_x)
          [] low = 85  -> LET m1 == store_registers(m, v_x, 0)
                          IN  IF m1.panic # "" THEN m1 ELSE Advance(m1, 2)
          [] low = 101 -> LET m1 == load_registers(m, v_x, 0)
                          IN  IF m1.panic # "" THEN m1 ELSE Advance(m1, 2)
          [] OTHER -> Panic(m, UNKNOWN_OPCODE, opcode)

(***************************************************************************)
(* The end of emulate_cycle: both timers count down once per call, and     *)
(* "BEEP" is printed when the sound timer is 1.                            *)
(***************************************************************************)
\* Mutant: "BEEP" on every tick that finds the sound timer running
update_timers_beep_while_sounding(m) ==
    [m EXCEPT !.delay_timer = IF @ > 0 THEN @ - 1 ELSE @,
              !.sound_timer = IF @ > 0 THEN @ - 1 ELSE @,
              !.beep = (m.sound_timer > 0)]

\* Mutant: the delay timer is decremented without the test for 0
update_timers_wrapping(m) ==
    [m EXCEPT !.delay_timer = (@ + U8 - 1) % U8,
              !.sound_timer = IF @ > 0 THEN @ - 1 ELSE @,
              !.beep = (m.sound_timer = 1)]

update_timers(m) ==
    [m EXCEPT !.delay_timer = IF @ > 0 THEN @ - 1 ELSE @,
              !.sound_timer = IF @ > 0 THEN @ - 1 ELSE @,
              !.beep = (m.sound_timer = 1)]

\* Mutant: the two bytes are combined in little-endian order
fetch_little_endian(m) ==
    MemRead(m.memory, m.program_counter) + MemRead(m.memory, m.program_counter + 1) * 256

\* Fetch: memory[pc] << 8 | memory[pc + 1]
fetch(m) ==
    MemRead(m.memory, m.program_counter) * 256 + MemRead(m.memory, m.program_counter + 1)

\* Decode and execute one opcode (the match on command_bit)
execute(m, opcode, rnd, oc) ==
    LET command_bit == opcode \div 4096
        v_x == (opcode \div 256) % 16
        v_y == (opcode \div 16) % 16
        nn  == opcode % 256
        nnn == opcode % 4096
    IN  CASE command_bit = 0 ->
               IF opcode = 224 THEN clear_screen(m)
               ELSE IF opcode = 238 THEN return_from_subroutine(m, oc)
               ELSE Panic(m, UNKNOWN_OPCODE, opcode)
          [] command_bit = 1 -> process_1_command(m, nnn)
          [] command_bit = 2 -> process_2_command(m, nnn, oc)
          [] command_bit = 3 -> process_3_command(m, v_x, nn)
          [] command_bit = 4 -> process_4_command(m, v_x, nn)
          [] command_bit = 5 ->
               IF opcode % 16 = 0 THEN process_5_command(m, v_x, v_y)
               ELSE Panic(m, UNKNOWN_OPCODE, opcode)
          [] command_bit = 6 -> process_6_command(m, v_x, nn)
          [] command_bit = 7 -> process_7_command(m, v_x, nn)
          [] command_bit = 8 -> process_8_command(m, opcode % 16, v_x, v_y)
          [] command_bit = 9 ->
               IF opcode % 16 = 0 THEN process_9_command(m, v_x, v_y)
               ELSE Panic(m, UNKNOWN_OPCODE, opcode)
          [] command_bit = 10 -> process_a_command(m, nnn)
          [] command_bit = 11 -> process_b_command(m, nnn)
          [] command_bit = 12 -> process_c_command(m, v_x, nn, rnd)
          [] command_bit = 13 -> draw_sprite(m, v_x, v_y, opcode % 16, oc)
          [] command_bit = 14 ->
               IF nn = 158 THEN process_ex9e_command(m, v_x)
               ELSE IF nn = 161 THEN process_exa1_command(m, v_x)
               ELSE Panic(m, UNKNOWN_OPCODE, opcode)
          [] OTHER -> process_f_command(m, opcode, v_x)

\* Mutant: the fetch reads past the end of memory as zero
emulate_cycle_unchecked_fetch(m, rnd, oc) ==
    LET m0 == [m EXCEPT !.beep = FALSE]
        m1 == execute(m0, fetch(m0), rnd, oc)
    IN  IF m1.panic # "" THEN m1 ELSE update_timers(m1)

(***************************************************************************)
(* Chip8::emulate_cycle: fetch, execute, then the timers.  A panic in the  *)
(* fetch or in the instruction ends the call before the timers.            *)
(***************************************************************************)
emulate_cycle(m, rnd, oc) ==
    LET m0 == [m EXCEPT !.beep = FALSE] IN
    IF m0.program_counter + 1 >= MEMORY_SIZE
    THEN Panic(m0, INDEX_OUT_OF_BOUNDS, 0)
    ELSE LET m1 == execute(m0, fetch(m0), rnd, oc)
         IN  IF m1.panic # "" THEN m1 ELSE update_timers(m1)

\* Chip8::draw_to_buffer: the returned should_draw, and the machine after it
draw_to_buffer_result(m) == m.draw_flag

\* Mutant: the draw flag is not cleared
draw_to_buffer_keeps_flag(m) == m

draw_to_buffer(m) == [m EXCEPT !.draw_flag = FALSE]

\* Mutant: the keys of the previous key state are not released
set_keys_accumulate(m, pressed) ==
    [m EXCEPT !.keys = [k \in 0 .. (NUM_KEYS - 1) |->
                           IF k \in pressed \/ m.keys[k] = 1 THEN 1 ELSE 0]]

(***************************************************************************)
(* Chip8::set_keys.  pressed is the set of pad indices 0 .. 15 whose       *)
(* keycode is in the host's list; other keycodes are ignored.              *)
(***************************************************************************)
set_keys(m, pressed) ==
    [m EXCEPT !.keys = [k \in 0 .. (NUM_KEYS - 1) |-> IF k \in pressed THEN 1 ELSE 0]]

\* Mutant: the program is copied to the start of memory
load_program_at_zero(m, program_buffer) ==
    LET target == 0 .. (Len(program_buffer) - 1)
        nonzero == {a \in target : program_buffer[a + 1] # 0}
    IN  [m EXCEPT !.memory =
            [a \in ((DOMAIN m.memory) \ target) \cup nonzero |->
                IF a \in target THEN program_buffer[a + 1] ELSE m.memory[a]]]

(***************************************************************************)
(* Chip8::load_program: for i in 0 .. len, memory[i + 512] = buffer[i].    *)
(* The loop is written in closed form: it copies the first `copied` bytes, *)
(* and panics at index 4096 when the buffer is longer than that.           *)
(***************************************************************************)
load_program(m, program_buffer) ==
    LET len == Len(program_buffer)
        copied == IF len > MEMORY_SIZE - PROGRAM_START
                  THEN MEMORY_SIZE - PROGRAM_START ELSE len
        target == PROGRAM_START .. (PROGRAM_START + copied - 1)
        nonzero == {a \in target : program_buffer[a - PROGRAM_START + 1] # 0}
        mem == [a \in ((DOMAIN m.memory) \ target) \cup nonzero |->
                   IF a \in target THEN program_buffer[a - PROGRAM_START + 1]
                   ELSE m.memory[a]]
        m1 == [m EXCEPT !.memory = mem]
    IN  IF len > copied THEN Panic(m1, INDEX_OUT_OF_BOUNDS, 0) ELSE m1

(***************************************************************************)
(* State.  The first eleven variables are the fields of the struct Chip8.  *)
(* panic, panic_value and beep are what a call of emulate_cycle or         *)
(* load_program produces besides its writes: the panic that ended it and   *)
(* the "BEEP" line it printed.  should_draw is what the most recent        *)
(* draw_to_buffer returned and buffer is the host's pixel buffer it fills; *)
(* program is the byte vector main has read and handed to load_program.    *)
(* overflow_checks is the build: whether integer overflow panics (a debug  *)
(* build) or wraps (a release build).  loaded is the position of the host: *)
(* load_program has been called.                                           *)
(*                                                                         *)
(* The remaining variables record the history the properties speak about:  *)
(* last_opcode and last_pc are the opcode fetched by the most recent       *)
(* emulate_cycle and the address it was fetched from (-1 before the first  *)
(* fetch); gfx_before is the display before the most recent cycle;         *)
(* delay_start and sound_start are the values the timers had when the      *)
(* current 1/60 s interval of wall-clock time began, or were last set to   *)
(* by FX15 / FX18 since; call_sites holds, for every call that has not     *)
(* returned yet, the address of the call and the stack pointer before it;  *)
(* key_state is the set of pad keys held down in the key state the host    *)
(* supplied most recently and previous_key_state the one supplied before   *)
(* it (no key before the host has supplied any); stored_registers holds    *)
(* the registers, I and x of the most recent FX55 for as long as no later  *)
(* instruction has changed I or memory[I .. I + x], and is empty           *)
(* otherwise; drawn_since_flush says that a 00E0 or DXYN has executed      *)
(* since the previous draw_to_buffer (or since construction).              *)
(***************************************************************************)
VARIABLES memory, cpu_registers, index_register, program_counter, gfx,
          delay_timer, sound_timer, stack, stack_pointer, keys, draw_flag,
          panic, panic_value, beep, should_draw, buffer, program,
          overflow_checks, loaded,
          last_opcode, last_pc, gfx_before, delay_start, sound_start,
          call_sites, key_state, previous_key_state,
          stored_registers, drawn_since_flush

chip8 == << memory, cpu_registers, index_register, program_counter, gfx,
            delay_timer, sound_timer, stack, stack_pointer, keys, draw_flag >>
outcome == << panic, panic_value, beep >>
history == << last_opcode, last_pc, gfx_before, delay_start, sound_start,
              call_sites, key_state, previous_key_state,
              stored_registers, drawn_since_flush >>
host == << should_draw, buffer, program >>
vars == << chip8, outcome, host, overflow_checks, loaded, history >>

\* The machine as a record
Self ==
    [ memory |-> memory, cpu_registers |-> cpu_registers,
      index_register |-> index_register, program_counter |-> program_counter,
      gfx |-> gfx, delay_timer |-> delay_timer, sound_timer |-> sound_timer,
      stack |-> stack, stack_pointer |-> stack_pointer, keys |-> keys,
      draw_flag |-> draw_flag, panic |-> panic, panic_value |-> panic_value,
      beep |-> beep ]

\* The machine becomes m
Becomes(m) ==
    /\ memory' = m.memory
    /\ cpu_registers' = m.cpu_registers
    /\ index_register' = m.index_register
    /\ program_counter' = m.program_counter
    /\ gfx' = m.gfx
    /\ delay_timer' = m.delay_timer
    /\ sound_timer' = m.sound_timer
    /\ stack' = m.stack
    /\ stack_pointer' = m.stack_pointer
    /\ keys' = m.keys
    /\ draw_flag' = m.draw_flag
    /\ panic' = m.panic
    /\ panic_value' = m.panic_value
    /\ beep' = m.beep

(***************************************************************************)
(* The state after main's set-up: the pixel buffer zeroed (vec![0; WIDTH * *)
(* HEIGHT]) and Chip8::new() called, in either build.                      *)
(***************************************************************************)
Init ==
    /\ memory = new.memory
    /\ cpu_registers = new.cpu_registers
    /\ index_register = new.index_register
    /\ program_counter = new.program_counter
    /\ gfx = new.gfx
    /\ delay_timer = new.delay_timer
    /\ sound_timer = new.sound_timer
    /\ stack = new.stack
    /\ stack_pointer = new.stack_pointer
    /\ keys = new.keys
    /\ draw_flag = new.draw_flag
    /\ panic = new.panic
    /\ panic_value = new.panic_value
    /\ beep = new.beep
    /\ should_draw = FALSE
    /\ buffer = {}
    /\ program = << >>
    /\ overflow_checks \in BOOLEAN
    /\ loaded = FALSE
    /\ last_opcode = -1
    /\ last_pc = -1
    /\ gfx_before = new.gfx
    /\ delay_start = 0
    /\ sound_start = 0
    /\ call_sites = << >>
    /\ key_state = {}
    /\ previous_key_state = {}
    /\ stored_registers = << >>
    /\ drawn_since_flush = FALSE

(***************************************************************************)
(* main: chip8.load_program(&program), once, before the emulation loop.    *)
(* The program is one of `programs`.                                       *)
(***************************************************************************)
LoadProgram(programs) ==
    /\ ~loaded
    /\ panic = ""
    /\ \E program_buffer \in programs :
          /\ program' = program_buffer
          /\ Becomes(load_program(Self, program_buffer))
    /\ loaded' = TRUE
    /\ UNCHANGED << should_draw, buffer, overflow_checks, history >>

(***************************************************************************)
(* One call of chip8.emulate_cycle().  A machine that has panicked runs no *)
(* further cycle.  The random byte of CXNN is any byte.                    *)
(***************************************************************************)
CanFetch == program_counter + 1 < MEMORY_SIZE

Opcode == IF CanFetch THEN fetch(Self) ELSE -1

RandomBytes == IF Opcode \div 4096 = 12 THEN Byte ELSE {0}

StoredRegistersAfter(m) ==
    IF m.panic # "" THEN stored_registers
    ELSE IF Opcode \div 4096 = 15 /\ Opcode % 256 = 85
         THEN << [ V |-> cpu_registers, I |-> index_register,
                   x |-> (Opcode \div 256) % 16 ] >>
    ELSE IF stored_registers = << >> THEN << >>
    ELSE LET s == stored_registers[1] IN
         IF \/ m.index_register # s.I
            \/ \E i \in 0 .. s.x :
                  MemRead(m.memory, s.I + i) # MemRead(memory, s.I + i)
         THEN << >>
         ELSE stored_registers

DrawnAfter(m) ==
    \/ drawn_since_flush
    \/ m.panic = "" /\ (Opcode = 224 \/ Opcode \div 4096 = 13)

CallSitesAfter(m) ==
    IF m.panic # "" THEN call_sites
    ELSE IF Opcode \div 4096 = 2
         THEN Append(call_sites, [pc |-> program_counter, sp |-> stack_pointer])
    ELSE IF Opcode = 238 /\ call_sites # << >>
         THEN SubSeq(call_sites, 1, Len(call_sites) - 1)
    ELSE call_sites

Step ==
    /\ loaded
    /\ panic = ""
    /\ \E rnd \in RandomBytes :
         \E m \in {emulate_cycle(Self, rnd, overflow_checks)} :
            /\ Becomes(m)
            /\ call_sites' = CallSitesAfter(m)
            /\ stored_registers' = StoredRegistersAfter(m)
            /\ drawn_since_flush' = DrawnAfter(m)
            /\ delay_start' = IF m.panic = "" /\ Opcode \div 4096 = 15 /\ Opcode % 256 = 21
                              THEN cpu_registers[(Opcode \div 256) % 16]
                              ELSE delay_start
            /\ sound_start' = IF m.panic = "" /\ Opcode \div 4096 = 15 /\ Opcode % 256 = 24
                              THEN cpu_registers[(Opcode \div 256) % 16]
                              ELSE sound_start
    /\ last_opcode' = Opcode
    /\ last_pc' = program_counter
    /\ gfx_before' = gfx
    /\ UNCHANGED << host, overflow_checks, loaded, key_state, previous_key_state >>

(***************************************************************************)
(* One call of chip8.draw_to_buffer(&mut buffer).                          *)
(***************************************************************************)
DrawToBuffer ==
    /\ loaded
    /\ panic = ""
    /\ should_draw' = draw_to_buffer_result(Self)
    /\ buffer' = IF draw_flag
                 THEN {pixel_idx \in 0 .. (GFX_SIZE - 1) : pixel_idx \in gfx}
                 ELSE buffer
    /\ draw_flag' = draw_to_buffer(Self).draw_flag
    /\ drawn_since_flush' = FALSE
    /\ UNCHANGED << memory, cpu_registers, index_register, program_counter, gfx,
                    delay_timer, sound_timer, stack, stack_pointer, keys,
                    outcome, program, overflow_checks, loaded,
                    last_opcode, last_pc, gfx_before, delay_start, sound_start,
                    call_sites, key_state, previous_key_state,
                    stored_registers >>

(***************************************************************************)
(* One call of chip8.set_keys(device_state.get_keys()).                    *)
(***************************************************************************)
SetKeys(snapshots) ==
    /\ loaded
    /\ panic = ""
    /\ \E pressed \in snapshots :
          /\ keys' = set_keys(Self, pressed).keys
          /\ key_state' = pressed
    /\ previous_key_state' = key_state
    /\ UNCHANGED << memory, cpu_registers, index_register, program_counter, gfx,
                    delay_timer, sound_timer, stack, stack_pointer, draw_flag,
                    outcome, host, overflow_checks, loaded,
                    last_opcode, last_pc, gfx_before, delay_start, sound_start,
                    call_sites, stored_registers, drawn_since_flush >>

(***************************************************************************)
(* Wall-clock time crosses a 1/60 s boundary.  The machine does not read   *)
(* the clock; only the history variables note the new interval.            *)
(***************************************************************************)
IntervalElapses ==
    /\ delay_start' = delay_timer
    /\ sound_start' = sound_timer
    /\ UNCHANGED << chip8, outcome, host, overflow_checks, loaded,
                    last_opcode, last_pc, gfx_before, call_sites,
                    key_state, previous_key_state,
                    stored_registers, drawn_since_flush >>

(***************************************************************************)
(* Programs.  Word(w) is the big-endian encoding of the opcode w.          *)
(***************************************************************************)
Word(w) == << w \div 256, w % 256 >>

Op(c, x, y, n) == Word(c * 4096 + x * 256 + y * 16 + n)

ArithValues == {0, 1, 3, 128, 255}
ArithOperators == {4, 5, 6, 7, 14}

\* 6XAA 6YBB 8XYN: load VX and VY, then one arithmetic instruction
ArithPrograms ==
    { Op(6, x, a \div 16, a % 16) \o Op(6, y, b \div 16, b % 16) \o Op(8, x, y, n) :
        x \in 0 .. 14, y \in 0 .. 15, a \in ArithValues, b \in ArithValues,
        n \in ArithOperators }

LoadArith == LoadProgram(ArithPrograms)

NextArith == LoadArith \/ Step

SpecArith == Init /\ [][NextArith]_vars

(***************************************************************************)
(* Draw programs: load VX and VY, draw a glyph at (VX, VY) to put content  *)
(* on the display (or not), then draw the sprite at I twice in a row.      *)
(*   6XAA 6YBB [A000+pre DXY5] A000+addr DXYN DXYN                         *)
(* The sprite addresses are glyphs, the last glyph (whose rows past the    *)
(* fifth lie in zeroed memory) and the program's own bytes.                *)
(***************************************************************************)
DrawRegisters == { <<0, 1>>, <<1, 1>>, <<14, 0>>, <<15, 2>>, <<3, 15>> }
DrawXs == {0, 60, 63, 200}
DrawYs == {0, 31, 33, 255}
DrawHeights == {0, 1, 5, 15}
SpriteAddresses == {0, 75, PROGRAM_START}
PreDraws == { << >>, <<10>>, <<0>> }

DrawPrograms ==
    { Op(6, r[1], a \div 16, a % 16) \o Op(6, r[2], b \div 16, b % 16)
        \o (IF pre = << >> THEN << >>
            ELSE Word(10 * 4096 + pre[1]) \o Op(13, r[1], r[2], 5))
        \o Word(10 * 4096 + addr) \o Op(13, r[1], r[2], n) \o Op(13, r[1], r[2], n) :
        r \in DrawRegisters, a \in DrawXs, b \in DrawYs, n \in DrawHeights,
        addr \in SpriteAddresses, pre \in PreDraws }

LoadDraw == LoadProgram(DrawPrograms)

NextDraw == LoadDraw \/ Step

SpecDraw == Init /\ [][NextDraw]_vars

(***************************************************************************)
(* Call programs: MaxSlots instructions at 0x200, 0x202, ..., each a call  *)
(* of one of the slots, a jump to one of the slots or a return; and the    *)
(* program of the example, a call of 0xEEE with a return at 0xEEE.         *)
(***************************************************************************)
MaxSlots == 3

SlotAddress(k) == PROGRAM_START + 2 * k

SlotInstructions ==
    { Word(2 * 4096 + SlotAddress(k)) : k \in 0 .. (MaxSlots - 1) }
      \cup { Word(1 * 4096 + SlotAddress(k)) : k \in 0 .. (MaxSlots - 1) }
      \cup { Word(238) }

RECURSIVE Concat(_)
Concat(ws) == IF ws = << >> THEN << >> ELSE Head(ws) \o Concat(Tail(ws))

ExampleCallProgram ==
    [i \in 1 .. (3822 - PROGRAM_START + 2) |->
        IF i = 1 THEN 46 ELSE IF i = 2 THEN 238
        ELSE IF i = 3822 - PROGRAM_START + 2 THEN 238 ELSE 0]

CallPrograms ==
    { Concat(ws) : ws \in [1 .. MaxSlots -> SlotInstructions] }
      \cup { ExampleCallProgram }

LoadCall == LoadProgram(CallPrograms)

NextCall == LoadCall \/ Step

SpecCall == Init /\ [][NextCall]_vars

(***************************************************************************)
(* Host programs: set both timers from V0, then loop reading the delay     *)
(* timer, testing key V0, clearing and drawing.                            *)
(*   200: 60VV  202: F015  204: F018  206: F107  208: E09E  20A: 00E0      *)
(*   20C: D005  20E: 1206                                                  *)
(* The host calls emulate_cycle, draw_to_buffer and set_keys on the        *)
(* machine; wall-clock time passes on its own.                             *)
(***************************************************************************)
MaxTimer == 3

HostPrograms ==
    { Op(6, 0, v \div 16, v % 16) \o Word(61461) \o Word(61464) \o Word(61703)
        \o Word(57502) \o Word(224) \o Word(53253) \o Word(4614) :
        v \in 0 .. MaxTimer }

KeySnapshots == { {}, {0, 1}, 0 .. (NUM_KEYS - 1) }

LoadHost == LoadProgram(HostPrograms)

Next == LoadHost \/ Step \/ DrawToBuffer \/ SetKeys(KeySnapshots) \/ IntervalElapses

Spec == Init /\ [][Next]_vars

(***************************************************************************)
(* The opcodes of the instruction table:                                   *)
(* 00E0, 00EE, 1NNN, 2NNN, 3XNN, 4XNN, 5XY0, 6XNN, 7XNN, 8XY0-8XY7, 8XYE,  *)
(* 9XY0, ANNN, BNNN, CXNN, DXYN, EX9E, EXA1, FX07, FX15, FX18, FX1E, FX29, *)
(* FX33, FX55, FX65.                                                       *)
(***************************************************************************)
Recognized(op) ==
    LET c == op \div 4096
        n == op % 16
        nn == op % 256
    IN  \/ op \in {224, 238}
        \/ c \in {1, 2, 3, 4, 6, 7, 10, 11, 12, 13}
        \/ c \in {5, 9} /\ n = 0
        \/ c = 8 /\ n \in (0 .. 7) \cup {14}
        \/ c = 14 /\ nn \in {158, 161}
        \/ c = 15 /\ nn \in {7, 21, 24, 30, 41, 51, 85, 101}

UnrecognizedOpcodes == {op \in 0 .. (U16 - 1) : ~Recognized(op)}

(***************************************************************************)
(* Programs that run into an opcode outside the table, with registers,     *)
(* the sound timer and the display set before it:                          *)
(*   6A07 FA18 DAA5 <opcode>                                               *)
(***************************************************************************)
InvalidPrograms ==
    { Word(27143) \o Word(64024) \o Word(55973) \o Word(op) : op \in UnrecognizedOpcodes }

LoadInvalid == LoadProgram(InvalidPrograms)

NextInvalid == LoadInvalid \/ Step

SpecInvalid == Init /\ [][NextInvalid]_vars

(***************************************************************************)
(* Index programs: set V0 and VX, point I at an address, optionally add VX *)
(* to I (which takes I past the end of memory from 0xFFF), then run one    *)
(* instruction that reads or writes memory from I on:                      *)
(*   60VV 6XVV ANNN [FX1E] (FX33 | FX55 | FX65 | DXXN)                     *)
(* FX33 is run on every byte value.                                        *)
(***************************************************************************)
IndexRegisters == {0, 2, 15}
IndexValues == {0, 1, 157, 255}
IndexAddresses == {0, 80, 768, 4093, 4094, 4095}
IndexHeights == {0, 1, 5}

IndexInstructions(x) ==
    { Op(15, x, 3, 3), Op(15, x, 5, 5), Op(15, x, 6, 5) }
      \cup { Op(13, x, x, n) : n \in IndexHeights }

\* 60VV 6XVV ANNN
IndexSetUp(x, v, nnn) ==
    Op(6, 0, v \div 16, v % 16) \o Op(6, x, v \div 16, v % 16)
      \o Word(10 * 4096 + nnn)

IndexPrograms ==
    { IndexSetUp(x, v, nnn) \o Op(15, x, 3, 3) :
        x \in IndexRegisters, v \in Byte, nnn \in IndexAddresses }
      \cup
    UNION { UNION { { IndexSetUp(x, v, nnn) \o op,
                      IndexSetUp(x, v, nnn) \o Op(15, x, 1, 14) \o op } :
                    op \in IndexInstructions(x) } :
        x \in IndexRegisters, v \in IndexValues, nnn \in IndexAddresses }

LoadIndex == LoadProgram(IndexPrograms)

NextIndex == LoadIndex \/ Step

SpecIndex == Init /\ [][NextIndex]_vars

(***************************************************************************)
(* Fetch programs, which take PC to the end of memory and past it:         *)
(*   1NNN                 a jump to 0xFFE or 0xFFF                         *)
(*   60VV BNNN            a jump to nnn + V0, up to 0xFFF + 255            *)
(*   1FFA ... 6A07 w1 w2  a program that fills memory, whose last three    *)
(*                        instructions, at 0xFFA, 0xFFC and 0xFFE, run off *)
(*                        the end of memory with a timer counting          *)
(***************************************************************************)
FetchJumpTargets == {4000, 4094, 4095}
FetchOffsets == {0, 1, 94, 95, 96, 255}
FetchTailInstructions == {64021, 64024, 224, 14855, 18951, 8191}

PROGRAM_CAPACITY == MEMORY_SIZE - PROGRAM_START

FetchTailProgram(w1, w2) ==
    LET tail == Word(27143) \o w1 \o w2
        first == PROGRAM_CAPACITY - Len(tail)
    IN  [i \in 1 .. PROGRAM_CAPACITY |->
            IF i = 1 THEN 31 ELSE IF i = 2 THEN 250
            ELSE IF i > first THEN tail[i - first] ELSE 0]

FetchPrograms ==
    { Word(1 * 4096 + nnn) : nnn \in FetchJumpTargets }
      \cup { Op(6, 0, v \div 16, v % 16) \o Word(11 * 4096 + nnn) :
               v \in FetchOffsets, nnn \in FetchJumpTargets }
      \cup { FetchTailProgram(Word(w1), Word(w2)) :
               w1 \in FetchTailInstructions, w2 \in FetchTailInstructions }

LoadFetch == LoadProgram(FetchPrograms)

NextFetch == LoadFetch \/ Step

SpecFetch == Init /\ [][NextFetch]_vars

(***************************************************************************)
(* Load programs: every byte sequence of up to MaxProgramLen bytes over    *)
(* LoadBytes, and long programs of PROGRAM_CAPACITY - 1 .. CAPACITY + 2    *)
(* bytes that start with the instruction 6A07 and hold i mod 251 + 1       *)
(* (never zero) at every later position i.                                 *)
(***************************************************************************)
MaxProgramLen == 4

LoadBytes == {0, 18, 255}

LongProgram(len) ==
    [i \in 1 .. len |-> IF i = 1 THEN 106 ELSE IF i = 2 THEN 7 ELSE (i % 251) + 1]

LoadPrograms ==
    UNION { [1 .. len -> LoadBytes] : len \in 0 .. MaxProgramLen }
      \cup { LongProgram(len) : len \in (PROGRAM_CAPACITY - 1) .. (PROGRAM_CAPACITY + 2) }

LoadLoad == LoadProgram(LoadPrograms)

NextLoad == LoadLoad \/ Step

SpecLoad == Init /\ [][NextLoad]_vars

(***************************************************************************)
(* Skip programs: load VX and VY, then one conditional skip:               *)
(*   6XAA 6YBB (3XNN | 4XNN | 5XY0 | 9XY0)                                 *)
(***************************************************************************)
SkipValues == {19, 20, 255}

SkipInstructions(x, y) ==
    { Op(c, x, nn \div 16, nn % 16) : c \in {3, 4}, nn \in SkipValues }
      \cup { Op(5, x, y, 0), Op(9, x, y, 0) }

SkipPrograms ==
    UNION { { Op(6, x, a \div 16, a % 16) \o Op(6, y, b \div 16, b % 16) \o op :
                op \in SkipInstructions(x, y) } :
            x \in 0 .. (NUM_REGISTERS - 1), y \in 0 .. (NUM_REGISTERS - 1),
            a \in SkipValues, b \in SkipValues }

LoadSkip == LoadProgram(SkipPrograms)

NextSkip == LoadSkip \/ Step

SpecSkip == Init /\ [][NextSkip]_vars

(***************************************************************************)
(* Key programs: load VX with a key number, then test that key in a loop   *)
(* while the host supplies key states between the cycles:                  *)
(*   200: 6XVV  202: EX9E | EXA1  204: 1202  206: 1202                     *)
(***************************************************************************)
KeyRegisters == {0, 7, 15}

KeyStates == { {}, {0, 1}, {1, 15}, {7}, 0 .. (NUM_KEYS - 1) }

KeyPrograms ==
    { Op(6, x, 0, v) \o Op(14, x, nn \div 16, nn % 16) \o Word(4610) \o Word(4610) :
        x \in KeyRegisters, v \in 0 .. (NUM_KEYS - 1), nn \in {158, 161} }

LoadKeys == LoadProgram(KeyPrograms)

NextKeys == LoadKeys \/ Step \/ SetKeys(KeyStates)

SpecKeys == Init /\ [][NextKeys]_vars

(***************************************************************************)
(* Register programs: load V0, V1 and VF, point I at an address, store     *)
(* V0..VX, run instructions that overwrite the registers (or, to leave the *)
(* round trip, change I or the stored bytes), then load V0..VX':           *)
(*   60AA 61BB 6FCC ANNN FX55 <between> FX'65                              *)
(***************************************************************************)
RegisterIndices == {0, 1, 15}
RegisterValues == { <<1, 2, 3>>, <<0, 255, 0>>, <<255, 0, 1>> }
RegisterAddresses == {0, 768, 4080}

InstructionsBetween ==
    { << >>,
      Word(24593) \o Word(24866) \o Word(28467),
      Word(24593) \o Word(61470),
      Word(24585) \o Word(61491),
      Word(41729) }

RegisterPrograms ==
    { Op(6, 0, v[1] \div 16, v[1] % 16) \o Op(6, 1, v[2] \div 16, v[2] % 16)
        \o Op(6, 15, v[3] \div 16, v[3] % 16) \o Word(10 * 4096 + nnn)
        \o Op(15, x, 5, 5) \o between \o Op(15, x2, 6, 5) :
        v \in RegisterValues, nnn \in RegisterAddresses, x \in RegisterIndices,
        between \in InstructionsBetween, x2 \in RegisterIndices }

LoadRegister == LoadProgram(RegisterPrograms)

NextRegister == LoadRegister \/ Step

SpecRegister == Init /\ [][NextRegister]_vars

(***************************************************************************)
(* Timer programs: set both timers from V0, read the delay timer, set one  *)
(* timer again from V1 while it is counting, read the delay timer again,   *)
(* then spin while the timers run down:                                    *)
(*   200: 60AA  202: 61BB  204: F015  206: F018  208: F207                 *)
(*   20A: F115 | F118  20C: F307  20E: 120E                                *)
(* Wall-clock time passes on its own between the cycles.                   *)
(***************************************************************************)
TimerValues == (0 .. MaxTimer) \cup {3 * MaxTimer}

TimerPrograms ==
    { Op(6, 0, a \div 16, a % 16) \o Op(6, 1, b \div 16, b % 16)
        \o Word(61461) \o Word(61464) \o Word(61959) \o Op(15, 1, 1, n)
        \o Word(62215) \o Word(4622) :
        a \in TimerValues, b \in TimerValues, n \in {5, 8} }

LoadTimer == LoadProgram(TimerPrograms)

NextTimer == LoadTimer \/ Step \/ IntervalElapses

SpecTimer == Init /\ [][NextTimer]_vars

(***************************************************************************)
(* Glyph programs: load VX with a hexadecimal digit, then FX29:            *)
(*   6XVV FX29                                                             *)
(***************************************************************************)
GlyphRegisters == {0, 7, 15}

GlyphPrograms ==
    { Op(6, x, 0, v) \o Op(15, x, 2, 9) :
        x \in GlyphRegisters, v \in 0 .. 15 }

LoadGlyph == LoadProgram(GlyphPrograms)

NextGlyph == LoadGlyph \/ Step

SpecGlyph == Init /\ [][NextGlyph]_vars

(***************************************************************************)
(* Jump programs: a jump 1NNN to any address, alone or followed by a       *)
(* second instruction:                                                     *)
(*   1NNN [124E]                                                           *)
(***************************************************************************)
JumpPrograms ==
    { Word(1 * 4096 + nnn) \o rest :
        nnn \in 0 .. (MEMORY_SIZE - 1), rest \in { << >>, Word(4686) } }

LoadJump == LoadProgram(JumpPrograms)

NextJump == LoadJump \/ Step

SpecJump == Init /\ [][NextJump]_vars

(***************************************************************************)
(* Immediate programs: set VF, load VX with nn, add mm to VX:              *)
(*   6F01 6XNN 7XMM                                                        *)
(***************************************************************************)
ImmediateValues == {0, 1, 127, 128, 255}

ImmediatePrograms ==
    { Word(28417) \o Op(6, x, nn \div 16, nn % 16) \o Op(7, x, mm \div 16, mm % 16) :
        x \in 0 .. (NUM_REGISTERS - 1), nn \in ImmediateValues, mm \in Byte }

LoadImmediate == LoadProgram(ImmediatePrograms)

NextImmediate == LoadImmediate \/ Step

SpecImmediate == Init /\ [][NextImmediate]_vars

(***************************************************************************)
(* Tour programs: one program that runs every instruction of the table     *)
(* once and then spins, while the host calls draw_to_buffer and set_keys   *)
(* between the cycles.  Every skip is followed                             *)
(* by an instruction that may or may not be skipped; CX03 draws V0 from    *)
(* 0 .. 3; the call at 0x24C returns from 0x254.                           *)
(***************************************************************************)
TourValues == {157}

TourProgram(v) ==
    Concat(<< Word(224), Op(6, 0, 0, 5), Op(6, 1, v \div 16, v % 16), Op(7, 0, 0, 3),
              Op(8, 0, 1, 0), Op(8, 0, 1, 1), Op(8, 0, 1, 2), Op(8, 0, 1, 3),
              Op(8, 0, 1, 4), Op(8, 0, 1, 5), Op(8, 0, 1, 6), Op(8, 0, 1, 7),
              Op(8, 0, 1, 14),
              Op(3, 0, 15, 15), Op(6, 2, 0, 7), Op(4, 0, 0, 0), Op(6, 3, 0, 7),
              Op(5, 0, 1, 0), Op(6, 4, 0, 7), Op(9, 0, 1, 0), Op(6, 5, 0, 7),
              Op(12, 0, 0, 3), Op(15, 0, 2, 9), Op(13, 0, 1, 5),
              Op(14, 0, 9, 14), Op(6, 6, 0, 7), Op(14, 0, 10, 1), Op(6, 7, 0, 7),
              Op(15, 0, 0, 7), Op(15, 0, 1, 5), Op(15, 0, 1, 8), Op(15, 0, 1, 14),
              Word(10 * 4096 + 768), Op(15, 1, 3, 3),
              Word(10 * 4096 + 784), Op(15, 2, 5, 5),
              Word(10 * 4096 + 768), Op(15, 3, 6, 5),
              Word(2 * 4096 + 596), Op(6, 0, 0, 0), Word(11 * 4096 + 598),
              Word(0), Word(238), Word(1 * 4096 + 598) >>)

TourPrograms == { TourProgram(v) : v \in TourValues }

LoadTour == LoadProgram(TourPrograms)

NextTour == LoadTour \/ Step \/ DrawToBuffer \/ SetKeys(KeySnapshots)

SpecTour == Init /\ [][NextTour]_vars

(***************************************************************************)
(* Properties.  The fields of the fetched opcode, as emulate_cycle decodes *)
(* them, for the cycle that starts in the current state.                   *)
(***************************************************************************)
Family == Opcode \div 4096
X == (Opcode \div 256) % 16
Y == (Opcode \div 16) % 16
N == Opcode % 16
NNN == Opcode % 4096

\* The cells in which two displays differ
Differ(g, h) == (g \ h) \cup (h \ g)

(***************************************************************************)
(* C1.  Timers follow elapsed 1/60 s intervals, not the number of cycles:  *)
(* however many cycles run inside one interval, each timer is at most 1    *)
(* below the value it had when the interval began (or was last set to by   *)
(* FX15 / FX18 within it).                                                 *)
(***************************************************************************)
C1_TimerCadence ==
    /\ delay_timer >= delay_start - 1
    /\ sound_timer >= sound_start - 1

(***************************************************************************)
(* C2.  A call 2NNN at PC = p with room on the stack increments the stack  *)
(* pointer, stores p at stack[pointer] and sets PC = nnn; the return that  *)
(* matches a call made at p, after any balanced calls and returns in       *)
(* between, sets PC = p + 2 and restores the stack pointer the call found. *)
(* From PC = 0x200, 2EEE gives PC = 0xEEE, pointer 1, stack[1] = 0x200,    *)
(* and the return at 0xEEE gives PC = 0x202, pointer 0.                    *)
(***************************************************************************)
C2_CallReturnPairing ==
    [][Step =>
        /\ (Family = 2 /\ stack_pointer + 1 < STACK_SIZE) =>
              /\ panic' = ""
              /\ stack_pointer' = stack_pointer + 1
              /\ stack'[stack_pointer'] = program_counter
              /\ program_counter' = NNN
        /\ (Opcode = 238 /\ call_sites # << >>) =>
              /\ panic' = ""
              /\ program_counter' = call_sites[Len(call_sites)].pc + 2
              /\ stack_pointer' = call_sites[Len(call_sites)].sp
        /\ (Opcode = 12014 /\ program_counter = 512 /\ stack_pointer = 0) =>
              /\ program_counter' = 3822
              /\ stack_pointer' = 1
              /\ stack'[1] = 512
        /\ (Opcode = 238 /\ program_counter = 3822
              /\ stack_pointer = 1 /\ stack[1] = 512) =>
              /\ program_counter' = 514
              /\ stack_pointer' = 0
    ]_vars

\* An inner call has returned to its call site while an outer call is pending
C2_Witness ==
    /\ panic = ""
    /\ last_opcode = 238
    /\ call_sites # << >>
    /\ stack_pointer = Len(call_sites)
    /\ program_counter = stack[stack_pointer + 1] + 2

(***************************************************************************)
(* C3.  An opcode outside the instruction table fails the cycle with an    *)
(* invalid-opcode error that carries the fetched 16-bit opcode, and leaves *)
(* the PC and the rest of the machine as they were.                        *)
(***************************************************************************)
C3_InvalidOpcode ==
    [][(Step /\ CanFetch /\ ~Recognized(Opcode)) =>
        /\ panic' = UNKNOWN_OPCODE
        /\ panic_value' = Opcode
        /\ UNCHANGED chip8
    ]_vars

(***************************************************************************)
(* The sprite of the draw that starts in the current state: the set of     *)
(* <<row, column>> whose bit is set in memory[I + row], column 0 being the *)
(* most significant bit.                                                   *)
(***************************************************************************)
IsDraw == Step /\ Family = 13 /\ panic' = ""

SpriteBits ==
    { rc \in (0 .. (N - 1)) \X (0 .. 7) :
        (MemRead(memory, index_register + rc[1]) \div (2 ^ (7 - rc[2]))) % 2 = 1 }

(***************************************************************************)
(* C4.  DXYN wraps each axis on its own: the cells a draw toggles are      *)
(* exactly (VX + column) mod 64 + ((VY + row) mod 32) * 64 for the set     *)
(* bits of the sprite, and no other cell changes.                          *)
(***************************************************************************)
C4_PerAxisWrap ==
    [][IsDraw =>
        Differ(gfx, gfx') =
            { ((cpu_registers[X] + rc[2]) % 64) + (((cpu_registers[Y] + rc[1]) % 32) * 64) :
                rc \in SpriteBits }
    ]_vars

(***************************************************************************)
(* C5.  The same DXYN executed twice in a row (x, y not 0xF) leaves the    *)
(* display as it was before the first draw, and VF after the second draw   *)
(* is 1 exactly when the first draw turned some cell from 0 to 1.          *)
(***************************************************************************)
C5_DoubleDraw ==
    [][(IsDraw /\ last_opcode = Opcode /\ last_pc + 2 = program_counter
          /\ X # 15 /\ Y # 15) =>
        /\ gfx' = gfx_before
        /\ cpu_registers'[15] = (IF gfx \ gfx_before # {} THEN 1 ELSE 0)
    ]_vars

\* The opcode two bytes before the one last executed
OpcodeBeforeLast == MemRead(memory, last_pc - 2) * 256 + MemRead(memory, last_pc - 1)

\* A second draw has erased what the first lit, on a display with other
\* content, at a position where the sprite runs past the right edge
C5_Witness ==
    /\ panic = ""
    /\ last_opcode \div 4096 = 13
    /\ OpcodeBeforeLast = last_opcode
    /\ (last_opcode \div 256) % 16 # 15
    /\ (last_opcode \div 16) % 16 # 15
    /\ cpu_registers[(last_opcode \div 256) % 16] = 60
    /\ cpu_registers[15] = 1
    /\ gfx # {}
    /\ gfx_before \ gfx # {}

(***************************************************************************)
(* C6.  After a DXYN, VF is 1 if and only if some cell that was 1 before   *)
(* the draw is 0 after it, whatever VF was before; the draw marks the      *)
(* display dirty, advances the PC by 2, and leaves I, memory and V0 .. VE  *)
(* unchanged.                                                              *)
(***************************************************************************)
C6_DrawCollision ==
    [][IsDraw =>
        /\ cpu_registers'[15] = (IF gfx \ gfx' # {} THEN 1 ELSE 0)
        /\ draw_flag'
        /\ program_counter' = program_counter + 2
        /\ index_register' = index_register
        /\ memory' = memory
        /\ \A r \in 0 .. 14 : cpu_registers'[r] = cpu_registers[r]
    ]_vars

\* A draw that found VF = 60 and no collision has reset VF to 0
C6_ResetReached ==
    /\ panic = ""
    /\ last_opcode \div 4096 = 13
    /\ (last_opcode \div 256) % 16 = 15
    /\ MemRead(memory, 513) = 60
    /\ last_pc = 518
    /\ gfx_before \ gfx = {}
    /\ cpu_registers[15] = 0
    /\ draw_flag

\* A draw has cleared a lit cell and set VF
C6_Witness ==
    /\ panic = ""
    /\ last_opcode \div 4096 = 13
    /\ gfx_before \ gfx # {}
    /\ cpu_registers[15] = 1

(***************************************************************************)
(* The arithmetic instruction 8XYn, x in 0 .. 14, that starts in the       *)
(* current state.                                                          *)
(***************************************************************************)
IsArith(n) == Step /\ Family = 8 /\ N = n /\ X \in 0 .. 14

(***************************************************************************)
(* C7.  8XY5 with a = VX and b = VY read before the instruction: VF = 1 if *)
(* a >= b else 0, VX = (a - b) mod 256, for every y including y = x and    *)
(* y = 0xF; VY is unchanged when y is neither x nor 0xF; PC advances by 2. *)
(***************************************************************************)
C7_SubtractVY ==
    [][IsArith(5) =>
        LET a == cpu_registers[X]
            b == cpu_registers[Y]
        IN  /\ cpu_registers'[15] = (IF a >= b THEN 1 ELSE 0)
            /\ cpu_registers'[X] = (a - b) % 256
            /\ (Y \notin {X, 15}) => cpu_registers'[Y] = b
            /\ program_counter' = program_counter + 2
    ]_vars

(***************************************************************************)
(* C8.  8XY7 with a = VX and b = VY read before the instruction: VF = 1 if *)
(* b >= a else 0, VX = (b - a) mod 256, for every y including y = x and    *)
(* y = 0xF; VY is unchanged when y is neither x nor 0xF; PC advances by 2. *)
(***************************************************************************)
C8_SubtractFromVY ==
    [][IsArith(7) =>
        LET a == cpu_registers[X]
            b == cpu_registers[Y]
        IN  /\ cpu_registers'[15] = (IF b >= a THEN 1 ELSE 0)
            /\ cpu_registers'[X] = (b - a) % 256
            /\ (Y \notin {X, 15}) => cpu_registers'[Y] = b
            /\ program_counter' = program_counter + 2
    ]_vars

(***************************************************************************)
(* C9.  8XY4 with a = VX and b = VY read before the instruction: VF = 1 if *)
(* a + b > 255 else 0 and VX = (a + b) mod 256, for every y including      *)
(* y = x and y = 0xF; PC advances by 2.                                    *)
(***************************************************************************)
C9_AddRegisters ==
    [][IsArith(4) =>
        LET a == cpu_registers[X]
            b == cpu_registers[Y]
        IN  /\ cpu_registers'[15] = (IF a + b > 255 THEN 1 ELSE 0)
            /\ cpu_registers'[X] = (a + b) % 256
            /\ program_counter' = program_counter + 2
    ]_vars

(***************************************************************************)
(* C10.  Shifts put the bit shifted out of VX into VF: with v = VX before, *)
(* 8XY6 leaves VF = v mod 2 and VX = v div 2, 8XYE leaves VF = v div 128   *)
(* and VX = (2 * v) mod 256; VF is 0 or 1 afterwards, the result does not  *)
(* depend on VY, and the PC advances by 2.  ShiftResult states that part.  *)
(***************************************************************************)
ShiftResult ==
    LET v == cpu_registers[X] IN
    /\ IsArith(6) =>
          /\ cpu_registers'[15] = v % 2
          /\ cpu_registers'[X] = v \div 2
    /\ IsArith(14) =>
          /\ cpu_registers'[15] = v \div 128
          /\ cpu_registers'[X] = (2 * v) % 256
    /\ cpu_registers'[15] \in {0, 1}
    /\ program_counter' = program_counter + 2

\* C10 as stated: VY is not changed, for every y
C10_ShiftsKeepVY ==
    [][(IsArith(6) \/ IsArith(14)) =>
        /\ ShiftResult
        /\ cpu_registers'[Y] = cpu_registers[Y]
    ]_vars

\* C10 as amended: VY is not changed when y is neither x nor 0xF
C10_Shifts ==
    [][(IsArith(6) \/ IsArith(14)) =>
        /\ ShiftResult
        /\ (Y \notin {X, 15}) => cpu_registers'[Y] = cpu_registers[Y]
    ]_vars

\* 8XYE has shifted 255 to 254 and put the bit shifted out, 1, into VF
C10_Witness ==
    /\ panic = ""
    /\ last_opcode \div 4096 = 8
    /\ last_opcode % 16 = 14
    /\ (last_opcode \div 256) % 16 \in 0 .. 14
    /\ (last_opcode \div 16) % 16 \notin {(last_opcode \div 256) % 16, 15}
    /\ MemRead(memory, 513) = 255
    /\ MemRead(memory, 515) = 3
    /\ cpu_registers[(last_opcode \div 256) % 16] = 254
    /\ cpu_registers[(last_opcode \div 16) % 16] = 3
    /\ cpu_registers[15] = 1


(***************************************************************************)
(* C11.  FX33, FX55, FX65 and DXYN check every address I + k they touch    *)
(* before they write anything: when one of the addresses is 4096 or more   *)
(* the cycle fails and memory, the registers (VF included), I, the         *)
(* display, the draw flag and PC are as they were before the cycle.        *)
(***************************************************************************)
TouchesPastMemory ==
    \/ Family = 15 /\ Opcode % 256 = 51 /\ index_register + 2 >= MEMORY_SIZE
    \/ Family = 15 /\ Opcode % 256 \in {85, 101} /\ index_register + X >= MEMORY_SIZE
    \/ Family = 13 /\ N >= 1 /\ index_register + N - 1 >= MEMORY_SIZE

C11_IndexFaults ==
    [][(Step /\ TouchesPastMemory) =>
        /\ panic' # ""
        /\ UNCHANGED << memory, cpu_registers, index_register, gfx, draw_flag,
                        program_counter >>
    ]_vars


(***************************************************************************)
(* C12.  The fetch is bounds-checked: a cycle that starts with             *)
(* PC + 1 >= 4096 fails with the memory bounds fault and changes nothing:  *)
(* PC, memory, the registers, I, the stack, the display, the keys and      *)
(* both timers are as before, so no opcode ran and no timer ticked.        *)
(***************************************************************************)
C12_FetchFault ==
    [][(Step /\ program_counter + 1 >= MEMORY_SIZE) =>
        /\ panic' = INDEX_OUT_OF_BOUNDS
        /\ UNCHANGED chip8
    ]_vars

\* A program has run off the end of memory while the delay timer counts
C12_Witness ==
    /\ panic = INDEX_OUT_OF_BOUNDS
    /\ last_opcode = -1
    /\ last_pc = MEMORY_SIZE
    /\ program_counter = MEMORY_SIZE
    /\ delay_timer > 0


(***************************************************************************)
(* C13.  A call 2NNN that finds no room on the stack fails and leaves PC,  *)
(* the stack pointer and every stack entry unchanged; the stack pointer    *)
(* never exceeds the maximum depth of 16, and a call never writes outside  *)
(* the 16 entries of the stack.                                            *)
(***************************************************************************)
C13_StackOverflow ==
    [][Step =>
        /\ (Family = 2 /\ panic' # "") =>
              UNCHANGED << program_counter, stack_pointer, stack >>
        /\ stack_pointer' <= STACK_SIZE
        /\ DOMAIN stack' = 0 .. (STACK_SIZE - 1)
    ]_vars

(***************************************************************************)
(* C14.  A return 00EE with an empty stack (stack pointer 0) fails and     *)
(* leaves PC, the stack pointer and the stack unchanged; the stack pointer *)
(* never goes below 0 and never wraps around.                              *)
(***************************************************************************)
C14_StackUnderflow ==
    [][Step =>
        /\ (Opcode = 238 /\ stack_pointer = 0) =>
              /\ panic' # ""
              /\ UNCHANGED << program_counter, stack_pointer, stack >>
        /\ Opcode = 238 => stack_pointer' \in 0 .. stack_pointer
    ]_vars

(***************************************************************************)
(* C15.  The stack holds 16 levels: from an empty stack each of 16 nested  *)
(* calls succeeds, that is, a call made while fewer than 16 calls are      *)
(* pending pushes its call site, and the returns then resume after the     *)
(* call sites in last-in-first-out order until the stack is empty.         *)
(***************************************************************************)
C15_SixteenLevels ==
    [][Step =>
        /\ (Family = 2 /\ stack_pointer = Len(call_sites)
              /\ Len(call_sites) < STACK_SIZE) =>
              /\ panic' = ""
              /\ stack_pointer' = stack_pointer + 1
              /\ program_counter' = NNN
        /\ (Opcode = 238 /\ call_sites # << >>
              /\ stack_pointer = Len(call_sites)) =>
              /\ panic' = ""
              /\ program_counter' = call_sites[Len(call_sites)].pc + 2
              /\ stack_pointer' = Len(call_sites) - 1
    ]_vars


(***************************************************************************)
(* C16.  load_program round trip: for a program of at most 4096 - 0x200    *)
(* bytes, afterwards memory[0x200 + i] is byte i of the program for every  *)
(* i, and memory outside the program's range (the glyph area included),    *)
(* the registers, I, PC, the stack, the timers and the display are as      *)
(* they were before.                                                       *)
(***************************************************************************)
IsLoad == ~loaded /\ loaded'

ProgramRange == PROGRAM_START .. (PROGRAM_START + Len(program') - 1)

C16_LoadRoundTrip ==
    [][(IsLoad /\ Len(program') + PROGRAM_START <= MEMORY_SIZE) =>
        /\ panic' = ""
        /\ \A i \in 0 .. (Len(program') - 1) :
              MemRead(memory', PROGRAM_START + i) = program'[i + 1]
        /\ \A a \in (0 .. (MEMORY_SIZE - 1)) \ ProgramRange :
              MemRead(memory', a) = MemRead(memory, a)
        /\ DOMAIN memory' \subseteq 0 .. (MEMORY_SIZE - 1)
        /\ UNCHANGED << cpu_registers, index_register, program_counter, stack,
                        stack_pointer, delay_timer, sound_timer, gfx >>
    ]_vars

\* A program that fills memory to its last byte has been loaded
C16_Witness ==
    /\ loaded
    /\ panic = ""
    /\ last_opcode = -1
    /\ Len(program) = PROGRAM_CAPACITY
    /\ MemRead(memory, MEMORY_SIZE - 1) = program[PROGRAM_CAPACITY]
    /\ MemRead(memory, MEMORY_SIZE - 1) # 0
    /\ MemRead(memory, 0) = CHIP8_FONTSET[1]

(***************************************************************************)
(* C17.  load_program fails exactly when the program is longer than        *)
(* 4096 - 0x200 = 3584 bytes (3584 bytes are accepted, 3585 rejected), and *)
(* a failed load leaves memory unchanged: no prefix has been copied.       *)
(***************************************************************************)
C17_ProgramTooLarge ==
    [][IsLoad =>
        /\ (panic' # "") <=> (Len(program') + PROGRAM_START > MEMORY_SIZE)
        /\ (panic' # "") => memory' = memory
    ]_vars


(***************************************************************************)
(* C18.  Conditional skips: 3XNN adds 4 to PC if VX = nn and 2 otherwise,  *)
(* 4XNN 4 if VX # nn, 5XY0 4 if VX = VY, 9XY0 4 if VX # VY, counted from   *)
(* the PC of the skip itself; no register, memory, stack or display state  *)
(* changes; and of 3XNN / 4XNN (and of 5XY0 / 9XY0) run on the same state, *)
(* exactly one skips.                                                      *)
(***************************************************************************)
IsSkip == Step /\ (Family \in {3, 4} \/ (Family \in {5, 9} /\ N = 0))

SkipCondition ==
    LET vx == cpu_registers[X]
        vy == cpu_registers[Y]
        nn == Opcode % 256
    IN  CASE Family = 3 -> vx = nn
          [] Family = 4 -> vx # nn
          [] Family = 5 -> vx = vy
          [] Family = 9 -> vx # vy

\* The same skip with the opposite condition: 3 <-> 4, 5 <-> 9
OppositeSkip ==
    LET c == CASE Family = 3 -> 4 [] Family = 4 -> 3
               [] Family = 5 -> 9 [] Family = 9 -> 5
    IN  c * 4096 + NNN

IsKeySkip ==
    Step /\ Family = 14 /\ Opcode % 256 \in {158, 161}
         /\ cpu_registers[X] \in 0 .. (NUM_KEYS - 1)

C19_KeySkips ==
    [][IsKeySkip =>
        LET pressed == cpu_registers[X] \in key_state
            skips == IF Opcode % 256 = 158 THEN pressed ELSE ~pressed
        IN  /\ panic' = ""
            /\ program_counter' = program_counter + (IF skips THEN 4 ELSE 2)
    ]_vars

\* EX9E has not skipped on a key that was held down in the key state before
\* the latest one and is released in the latest
C19_Witness ==
    /\ panic = ""
    /\ last_opcode \div 4096 = 14
    /\ last_opcode % 256 = 158
    /\ cpu_registers[(last_opcode \div 256) % 16] \in previous_key_state \ key_state
    /\ key_state # {}
    /\ program_counter = last_pc + 2


(***************************************************************************)
(* C20.  FX33 with VX = v and I <= 4093 stores the decimal digits of v:    *)
(* memory[I] = v div 100, memory[I+1] = (v div 10) mod 10, memory[I+2] =   *)
(* v mod 10, each in 0 .. 9 and together 100 * h + 10 * t + o = v; no      *)
(* other byte of memory, no register and not I changes; PC advances by 2.  *)
(***************************************************************************)
IsBcd == Step /\ Family = 15 /\ Opcode % 256 = 51

C20_StoreBcd ==
    [][(IsBcd /\ index_register <= MEMORY_SIZE - 3) =>
        LET v == cpu_registers[X]
            I == index_register
            hundreds == MemRead(memory', I)
            tens == MemRead(memory', I + 1)
            ones == MemRead(memory', I + 2)
        IN  /\ panic' = ""
            /\ hundreds = v \div 100
            /\ tens = (v \div 10) % 10
            /\ ones = v % 10
            /\ {hundreds, tens, ones} \subseteq 0 .. 9
            /\ (100 * hundreds) + (10 * tens) + ones = v
            /\ \A a \in ((DOMAIN memory) \cup (DOMAIN memory')) \ {I, I + 1, I + 2} :
                  MemRead(memory', a) = MemRead(memory, a)
            /\ UNCHANGED << cpu_registers, index_register >>
            /\ program_counter' = program_counter + 2
    ]_vars

\* FX33 has stored 1, 5, 7 for VX = 157 at I = 0x300
C20_Witness ==
    /\ panic = ""
    /\ last_opcode \div 4096 = 15
    /\ last_opcode % 256 = 51
    /\ cpu_registers[(last_opcode \div 256) % 16] = 157
    /\ index_register = 768
    /\ MemRead(memory, 768) = 1
    /\ MemRead(memory, 769) = 5
    /\ MemRead(memory, 770) = 7


(***************************************************************************)
(* C21.  FX55 writes V0..VX to memory[I .. I + x] and nothing else; FX65   *)
(* reads memory[I .. I + x] into V0..VX and changes no register above x;   *)
(* neither changes I.  So an FX65 that follows an FX55 with the same x,    *)
(* with only instructions between them that changed neither I nor          *)
(* memory[I .. I + x], restores V0..VX to their values at the FX55.        *)
(***************************************************************************)
IsStoreRegisters ==
    Step /\ Family = 15 /\ Opcode % 256 = 85 /\ index_register + X < MEMORY_SIZE

IsLoadRegisters ==
    Step /\ Family = 15 /\ Opcode % 256 = 101 /\ index_register + X < MEMORY_SIZE

C21_StoreLoadRoundTrip ==
    [][/\ IsStoreRegisters =>
            /\ panic' = ""
            /\ \A i \in 0 .. X :
                  MemRead(memory', index_register + i) = cpu_registers[i]
            /\ \A a \in ((DOMAIN memory) \cup (DOMAIN memory'))
                          \ (index_register .. (index_register + X)) :
                  MemRead(memory', a) = MemRead(memory, a)
            /\ UNCHANGED << cpu_registers, index_register, gfx, stack,
                            stack_pointer >>
       /\ IsLoadRegisters =>
            /\ panic' = ""
            /\ \A i \in 0 .. X :
                  cpu_registers'[i] = MemRead(memory, index_register + i)
            /\ \A j \in (X + 1) .. (NUM_REGISTERS - 1) :
                  cpu_registers'[j] = cpu_registers[j]
            /\ UNCHANGED << memory, index_register >>
            /\ (stored_registers # << >> /\ stored_registers[1].x = X) =>
                  \A i \in 0 .. X : cpu_registers'[i] = stored_registers[1].V[i]
    ]_vars

\* FF65 has restored V0..VF after 6011 6122 6F33 overwrote V0, V1 and VF
C21_Witness ==
    /\ panic = ""
    /\ last_opcode = 65381
    /\ OpcodeBeforeLast = 28467
    /\ stored_registers # << >>
    /\ stored_registers[1].x = 15
    /\ cpu_registers = stored_registers[1].V
    /\ cpu_registers[1] = 255
    /\ cpu_registers[15] # 51


(***************************************************************************)
(* C22.  draw_to_buffer returns true exactly when a 00E0 or a DXYN has     *)
(* executed since the previous draw_to_buffer (or since construction), and *)
(* it clears the flag, so that a second call with no cycle in between      *)
(* returns false.  Whenever the display differs from what the host's       *)
(* buffer received at the last call, the next call returns true.           *)
(***************************************************************************)
C22_DrawFlag ==
    [][DrawToBuffer =>
        /\ should_draw' = drawn_since_flush
        /\ draw_flag' = FALSE
        /\ (gfx # buffer) => should_draw'
        /\ buffer' = gfx
    ]_vars

\* A draw_to_buffer after a sprite draw has returned true and handed the
\* host the display
C22_Witness ==
    /\ panic = ""
    /\ should_draw
    /\ ~draw_flag
    /\ ~drawn_since_flush
    /\ last_opcode \div 4096 = 13
    /\ gfx # {}
    /\ buffer = gfx


(***************************************************************************)
(* The timers as the timer update at the end of a cycle finds them: VX if  *)
(* the cycle's instruction is FX15 (FX18), the timer's value otherwise.    *)
(***************************************************************************)
DelayBeforeTick ==
    IF Family = 15 /\ Opcode % 256 = 21 THEN cpu_registers[X] ELSE delay_timer

SoundBeforeTick ==
    IF Family = 15 /\ Opcode % 256 = 24 THEN cpu_registers[X] ELSE sound_timer

\* A cycle that fails ends before the timer update
Ticks == Step /\ panic' = ""

(***************************************************************************)
(* C23.  A beep is emitted exactly on a tick that takes the sound timer    *)
(* from 1 to 0: not on a tick that finds it at 0 or above 1, not in a      *)
(* cycle that has no tick, and not by FX18 writing the sound timer.        *)
(***************************************************************************)
C23_BeepEdge ==
    [][/\ Step => (beep' <=> (Ticks /\ SoundBeforeTick = 1 /\ sound_timer' = 0))
       /\ (Step /\ Family = 15 /\ Opcode % 256 = 24 /\ cpu_registers[X] # 1)
             => ~beep'
       /\ ~Step => beep' = beep
    ]_vars

\* The tick of a spinning jump has taken the sound timer from 1 to 0
C23_Witness ==
    /\ panic = ""
    /\ beep
    /\ sound_timer = 0
    /\ last_opcode = 4622

(***************************************************************************)
(* C24.  A cycle that executes FX15 (FX18), with no 1/60 s interval        *)
(* elapsing during it, leaves the delay (sound) timer equal to VX; an FX07 *)
(* before the next interval elapses loads the value the timer was set to   *)
(* or had when the current interval began.                                 *)
(***************************************************************************)
C24_TimerStoreLoad ==
    [][Step =>
        /\ (Family = 15 /\ Opcode % 256 = 21) => delay_timer' = cpu_registers[X]
        /\ (Family = 15 /\ Opcode % 256 = 24) => sound_timer' = cpu_registers[X]
        /\ (Family = 15 /\ Opcode % 256 = 7) => cpu_registers'[X] = delay_start
    ]_vars

(***************************************************************************)
(* C25.  Both timers are always in 0 .. 255; a tick lowers a timer that is *)
(* not 0 by exactly 1 and leaves a timer that is 0 at 0; each timer's new  *)
(* value depends on that timer alone; a cycle without a tick leaves both.  *)
(***************************************************************************)
TickOf(t) == IF t > 0 THEN t - 1 ELSE 0

C25_TimerFloor ==
    [][/\ delay_timer' \in Byte
       /\ sound_timer' \in Byte
       /\ Ticks =>
            /\ delay_timer' = TickOf(DelayBeforeTick)
            /\ sound_timer' = TickOf(SoundBeforeTick)
       /\ (Step /\ ~Ticks) => UNCHANGED << delay_timer, sound_timer >>
    ]_vars

\* The delay timer has stayed at 0 through ticks that lowered the sound timer
C25_Witness ==
    /\ panic = ""
    /\ last_opcode = 4622
    /\ program_counter = last_pc
    /\ delay_timer = 0
    /\ sound_timer > 1


(***************************************************************************)
(* C26.  On a constructed machine with a program loaded, FX29 with VX in   *)
(* 0 .. 15 sets I = VX * 5, and the five bytes memory[I .. I + 4] are the  *)
(* built-in glyph of the digit VX, all of them below 0x050; no register    *)
(* (VF included) changes and PC advances by 2.                             *)
(***************************************************************************)
IsGlyph == Step /\ Family = 15 /\ Opcode % 256 = 41 /\ cpu_registers[X] \in 0 .. 15

C26_GlyphAddress ==
    [][IsGlyph =>
        LET digit == cpu_registers[X] IN
        /\ panic' = ""
        /\ index_register' = digit * 5
        /\ \A k \in 0 .. 4 :
              MemRead(memory', index_register' + k) = CHIP8_FONTSET[(digit * 5) + k + 1]
        /\ index_register' + 4 < 80
        /\ UNCHANGED << cpu_registers, memory >>
        /\ program_counter' = program_counter + 2
    ]_vars

\* FF29 with VF = 0xF points I at the glyph of F: F0 80 F0 80 80
C26_Witness ==
    /\ panic = ""
    /\ last_opcode = 65321
    /\ cpu_registers[15] = 15
    /\ index_register = 75
    /\ << MemRead(memory, 75), MemRead(memory, 76), MemRead(memory, 77),
          MemRead(memory, 78), MemRead(memory, 79) >> = << 240, 128, 240, 128, 128 >>


(***************************************************************************)
(* C27.  On a freshly constructed machine (PC = 0x200) loaded with a       *)
(* program whose first two bytes are the big-endian encoding of 1NNN, the  *)
(* first cycle sets PC = nnn and changes no register, not I, not the stack *)
(* or the stack pointer, no byte of memory and no display cell.            *)
(***************************************************************************)
IsFirstCycle == Step /\ last_pc = -1 /\ program_counter = PROGRAM_START

C27_FetchAndJump ==
    [][(IsFirstCycle /\ Len(program) >= 2 /\ program[1] \div 16 = 1) =>
        /\ panic' = ""
        /\ program_counter' = ((program[1] % 16) * 256) + program[2]
        /\ UNCHANGED << cpu_registers, index_register, stack, stack_pointer,
                        memory, gfx >>
    ]_vars

\* The program 12 4E has jumped from 0x200 to 0x24E
C27_Witness ==
    /\ panic = ""
    /\ program = << 18, 78 >>
    /\ last_pc = PROGRAM_START
    /\ last_opcode = 4686
    /\ program_counter = 590


(***************************************************************************)
(* C28.  6XNN leaves VX = nn; 7XMM leaves VX = (VX + mm) mod 256, so 6XNN  *)
(* followed by 7XMM leaves VX = (nn + mm) mod 256.  Neither changes any    *)
(* other register (so not VF when x is not 0xF), and each advances PC by   *)
(* 2.                                                                      *)
(***************************************************************************)
C28_LoadAndAddImmediate ==
    [][Step =>
        /\ Family = 6 =>
              /\ panic' = ""
              /\ cpu_registers'[X] = Opcode % 256
        /\ Family = 7 =>
              /\ panic' = ""
              /\ cpu_registers'[X] = (cpu_registers[X] + (Opcode % 256)) % U8
              /\ (last_opcode \div 4096 = 6 /\ (last_opcode \div 256) % 16 = X) =>
                    cpu_registers'[X] = ((last_opcode % 256) + (Opcode % 256)) % U8
        /\ Family \in {6, 7} =>
              /\ \A r \in (0 .. (NUM_REGISTERS - 1)) \ {X} :
                    cpu_registers'[r] = cpu_registers[r]
              /\ program_counter' = program_counter + 2
    ]_vars

\* 6XFF then 7X02 has left VX = 1 and VF as it was, for an x other than 0xF
C28_Witness ==
    /\ panic = ""
    /\ last_opcode \div 4096 = 7
    /\ last_opcode % 256 = 2
    /\ (last_opcode \div 256) % 16 # 15
    /\ OpcodeBeforeLast = (6 * 4096) + (((last_opcode \div 256) % 16) * 256) + 255
    /\ cpu_registers[(last_opcode \div 256) % 16] = 1
    /\ cpu_registers[15] = 1


(***************************************************************************)
(* C29.  A cycle that completes changes a byte of memory only when it      *)
(* executes FX33, and then only in memory[I .. I + 2], or FX55, and then   *)
(* only in memory[I .. I + x]; every other instruction, the timer update,  *)
(* draw_to_buffer and set_keys leave all 4096 bytes unchanged.             *)
(***************************************************************************)
ChangedBytes ==
    { a \in (DOMAIN memory) \cup (DOMAIN memory') :
        MemRead(memory', a) # MemRead(memory, a) }

WritableBytes ==
    IF Step /\ Family = 15 /\ Opcode % 256 = 51
    THEN index_register .. (index_register + 2)
    ELSE IF Step /\ Family = 15 /\ Opcode % 256 = 85
    THEN index_register .. (index_register + X)
    ELSE {}

C29_MemoryFrame ==
    [][(loaded /\ panic' = "") => ChangedBytes \subseteq WritableBytes]_vars

\* The tour has reached its last instruction with the host having drawn and
\* supplied keys; memory holds the program, the glyphs, and the bytes
\* FX33 and FX55 stored
C29_Witness ==
    /\ panic = ""
    /\ last_opcode = (1 * 4096) + 598
    /\ should_draw
    /\ key_state # {}
    /\ \A i \in 1 .. Len(program) : MemRead(memory, PROGRAM_START + i - 1) = program[i]
    /\ \A a \in 0 .. 79 : MemRead(memory, a) = CHIP8_FONTSET[a + 1]
    /\ MemRead(memory, 770) = 7
    /\ MemRead(memory, 785) = MemRead(memory, 517)
    /\ DOMAIN memory \subseteq (0 .. 79) \cup (PROGRAM_START .. (PROGRAM_START + Len(program) - 1))
                               \cup (768 .. 770) \cup (784 .. 786)

=============================================================================
